---- MODULE Spec2Model ----
(***************************************************************************)
(* Task-completion synchronisation and reward ledger of the OnFire task    *)
(* HUD (frontend/src/pages/TaskManagementHUD.js, services/api.js).         *)
(*                                                                         *)
(* The component state (tasks, completedTasks, people, loading, showModal) *)
(* is mutated only by event handlers and by the continuations of awaited   *)
(* remote calls.  Every await is a place where other handlers can run, so  *)
(* each async function is split into one action per synchronous segment.   *)
(* A remote call in flight is a record of the bag inflight; it carries the *)
(* values the continuation closed over (task, personId, amount,            *)
(* conversationId).  A fetch carries the rows the Task Store held when the *)
(* request was sent, so its answer can be stale by the time the client     *)
(* applies it; a status update is applied to the Task Store in the step    *)
(* that handles its successful answer.                                     *)
(*                                                                         *)
(* Not modelled: display names, avatars, colours, timestamps (updated_at), *)
(* progress_percentage and the description strings of a transaction.       *)
(*                                                                         *)
(* The summary display (transactionSummaries, loadTransactionSummaries) is *)
(* written by no step of the task flows and read by none of them.  Only    *)
(* SpecSummary answers the summary requests, for a conversation of one     *)
(* task; the other specifications leave them unanswered.  SpecProgress     *)
(* starts with a stored summary row to exercise getPersonProgress, whose   *)
(* bar heights are counted in halves of a percent.                         *)
(* A missing budget_cost (null/undefined) is the number 0: both are falsy  *)
(* in `task.budget_cost || coins`.  Of the metadata of a transaction only  *)
(* task_id is modelled, and of the modal data only the coins.              *)
(*                                                                         *)
(* The QR login of the Login page (unnamed/part_004) is a second component *)
(* with its own state; SpecLogin runs it, the other specifications leave   *)
(* it as constructed.  Time is counted in seconds: a step Tick lets one    *)
(* second pass and runs the interval callbacks that are due.  The server   *)
(* answers a status check with the status the session has when the answer  *)
(* is handled.  Not modelled: the e-mail tab and switching back to it, the *)
(* canvas, the messages, the token storage and the navigation that follow  *)
(* a confirmed login.                                                      *)
(***************************************************************************)
EXTENDS Bags, FiniteSets, Integers, Sequences, TLC

\* ---------------------------------------------------------------- bounds
\* number of user events (calls of completeTask, uncompleteTask, conversation
\* switches) in one behaviour
MaxOps == 3
\* QR sessions generated in one behaviour
MaxSessions == 2
\* status checks awaited at the same time
MaxChecks == 2

\* ---------------------------------------------------------------- data
Null == "null"
Persons == {"p1", "p2", "p3"}
\* the signed-in user, onFireAPI.getUserData().id
UserId == "p1"
TaskIds == {"t1", "t2"}
\* getTasks orders by created_at.desc: a fixed order of the task ids
TaskOrder == <<"t1", "t2">>
Conversations == {"cA", "cB"}
\* the persons whose avatar the user taps to complete a task
Completers == {"p2"}
\* an id that no task of the Task Store names: completeTask called with it
\* finds no person
Strangers == {"p9"}
\* what the second task is when the component mounts: an open task without a
\* creator, or a task p2 has completed already
Shapes == {"noPayer", "done"}

\* budget_cost and estimated_time_minutes of the task paid for in the reward
\* runs; 0 stands for a missing value
Budgets == {-5, 0, 12}
Estimates == {0, 21, 25, 999}

\* a task row as the Task Store first holds it
InitialTask(t, shape) ==
  IF t = "t1"
  THEN [ id                     |-> t,
         status                 |-> "not_started",
         completed_by_user_id   |-> Null,
         created_by_user_id     |-> "p1",
         budget_cost            |-> 50,
         estimated_time_minutes |-> 999,
         assignee_user_ids      |-> <<"p2">>,
         chat_id                |-> "cA" ]
  ELSE [ id                     |-> t,
         status                 |-> IF shape = "done" THEN "completed"
                                    ELSE "not_started",
         completed_by_user_id   |-> IF shape = "done" THEN "p2" ELSE Null,
         created_by_user_id     |-> IF shape = "done" THEN "p1" ELSE Null,
         budget_cost            |-> 0,
         estimated_time_minutes |-> 25,
         assignee_user_ids      |-> <<"p3">>,
         chat_id                |-> "cA" ]

\* transactionSummaries[personId] of a person without stored row (undefined)
NoSummary ==
  [ found |-> FALSE, total_amount |-> 0, daily |-> 0, weekly |-> 0,
    monthly |-> 0 ]

\* the rows rpc/transactions_summary answers with: total_amount and the
\* entries of daily_summary, weekly_summary and monthly_summary the display
\* reads (today, the latest week, the current month)
SummaryRows ==
  { [ found |-> TRUE, total_amount |-> -7, daily |-> -2, weekly |-> 0,
      monthly |-> -7 ] }

\* rows with amounts of either sign, below and above what fills a bar (10 a
\* day, 50 a week, 200 a month)
ProgressRows ==
  { [ found |-> TRUE, total_amount |-> r[1], daily |-> r[2], weekly |-> r[3],
      monthly |-> r[4] ] :
    r \in { <<-250, -12, -60, -250>>, <<-7, -2, 0, -7>>, <<0, 0, 0, 0>>,
            <<3, 3, 3, 3>>, <<201, 10, 50, 200>>, <<60, 11, 51, 201>>,
            <<-199, -9, -49, -199>>, <<55, 0, 55, 55>>, <<-1, 0, -1, -1>>,
            <<500, -10, -50, -200>> } }

\* `useState({ personName: '', taskTitle: '', coins: 0 })`
NoModal == [coins |-> 0]

NoTask ==
  [ id                     |-> "none",
    status                 |-> "none",
    completed_by_user_id   |-> Null,
    created_by_user_id     |-> Null,
    budget_cost            |-> 0,
    estimated_time_minutes |-> 0,
    assignee_user_ids      |-> <<>>,
    chat_id                |-> "none" ]

\* ---------------------------------------------------------------- pure helpers
\* Math.ceil(x / 10) on integers
CeilDiv10(x) == -((-x) \div 10)

\* Math.ceil((task.estimated_time_minutes || 30) / 10)
Coins(task) ==
  CeilDiv10(IF task.estimated_time_minutes = 0 THEN 30
            ELSE task.estimated_time_minutes)

\* mutant: the budget is ignored, the coins shown to the user are paid
AmountCoinsOnly(task) == Coins(task)

\* task.budget_cost || coins
Amount(task) == IF task.budget_cost # 0 THEN task.budget_cost ELSE Coins(task)

\* Array.prototype.find(t => t.id === taskId): the first match, or none
FindTask(seq, t) ==
  IF \E i \in 1..Len(seq) : seq[i].id = t
  THEN seq[CHOOSE i \in 1..Len(seq) :
             seq[i].id = t /\ \A j \in 1..(i - 1) : seq[j].id # t]
  ELSE NoTask

\* Array.prototype.filter(t => t.id !== taskId)
RemoveTask(seq, t) == SelectSeq(seq, LAMBDA x : x.id # t)

IsCompleted(x) == x.status = "completed"
IsActive(x) == x.status # "completed"

Range(seq) == {seq[i] : i \in 1..Len(seq)}
Ids(seq) == {seq[i].id : i \in 1..Len(seq)}

\* insertion order of a JavaScript Set: the first occurrence of each element
RECURSIVE Dedup(_)
Dedup(seq) ==
  IF seq = <<>> THEN <<>>
  ELSE LET rest == Dedup(SubSeq(seq, 1, Len(seq) - 1))
           x    == seq[Len(seq)]
       IN IF x \in Range(rest) THEN rest ELSE Append(rest, x)

\* the ids one task adds to uniqueUserIds: assignees, completer, creator
TaskUserIds(task) ==
  task.assignee_user_ids
    \o (IF task.completed_by_user_id # Null
        THEN <<task.completed_by_user_id>> ELSE <<>>)
    \o (IF task.created_by_user_id # Null
        THEN <<task.created_by_user_id>> ELSE <<>>)

RECURSIVE AllTaskUserIds(_)
AllTaskUserIds(data) ==
  IF data = <<>> THEN <<>>
  ELSE TaskUserIds(data[1]) \o AllTaskUserIds(SubSeq(data, 2, Len(data)))

\* mutant: an array instead of a Set, every occurrence is kept
UniqueUserIdsRepeats(data) == <<UserId>> \o AllTaskUserIds(data)

\* Array.from(uniqueUserIds): the signed-in user first, then first-seen order
UniqueUserIds(data) == Dedup(<<UserId>> \o AllTaskUserIds(data))

\* ---------------------------------------------------------------- state
VARIABLES
  remoteTasks,     \* Task Store: task id -> row
  conversationId,  \* the conversationId prop of the mounted component
  tasks,           \* useState tasks (active collection)
  completedTasks,  \* useState completedTasks
  people,          \* useState people (ids only)
  loading,         \* useState loading
  showModal,       \* useState showModal (also the re-entry guard)
  inflight,        \* bag of awaited remote calls with their closures
  timers,          \* pending setTimeout(() => setShowModal(false), 3000)
  ledger,          \* payloads POSTed to /transactions, in order
  updLog,          \* task id -> sequence of status updates requested
  last,            \* the segment of a client handler that ran last
  opsDone,         \* user events so far
  transactionSummaries,  \* useState transactionSummaries: person -> row
  summaryLoads,    \* bag of running loadTransactionSummaries() calls
  modalData,       \* useState modalData (the coins field)
  activeTab,       \* Login: useState activeTab
  qrCodeRef,       \* Login: qrCodeRef.current, 0 for null
  qrStatus,        \* Login: useState qrStatus
  pollingRef,      \* Login: pollingRef.current holds a live interval
  timerRef,        \* Login: timerRef.current holds a live interval
  expiresIn,       \* Login: max(0, expiresAtRef.current - now) in seconds,
                   \* -1 while expiresAtRef.current is null
  pollPhase,       \* Login: seconds since the polling interval last fired
  generating,      \* Login: bag of running generateQRSession() calls
  checks,          \* Login: bag of awaited check_qr_status calls
  server,          \* the QR sessions the server holds, by qr_code
  handled          \* the runs of handleQRSuccess / handleDisplayLinked

vars == <<remoteTasks, conversationId, tasks, completedTasks, people, loading,
          showModal, inflight, timers, ledger, updLog, last, opsDone,
          transactionSummaries, summaryLoads, modalData, activeTab, qrCodeRef,
          qrStatus, pollingRef, timerRef, expiresIn, pollPhase, generating,
          checks, server, handled>>

\* the state of the task HUD
hudVars == <<remoteTasks, conversationId, tasks, completedTasks, people,
             loading, showModal, inflight, timers, ledger, updLog, last,
             opsDone, transactionSummaries, summaryLoads, modalData>>

\* the state of the Login page and of the QR sessions
loginVars == <<activeTab, qrCodeRef, qrStatus, pollingRef, timerRef, expiresIn,
               pollPhase, generating, checks, server, handled>>

\* the state of the summary display
summaryVars == <<transactionSummaries, summaryLoads>>

\* an awaited remote call
Req(kind, conv, task, person, amount, idx) ==
  [ kind   |-> kind,    \* getTasks, getProfiles, updComplete, updUncomplete,
                        \* txSend, txUnsend
    conv   |-> conv,    \* conversationId of the closure
    data   |-> <<>>,    \* getTasks, getProfiles: apiTasks, the rows fetched
    ids    |-> <<>>,    \* getProfiles: Array.from(uniqueUserIds)
    task   |-> task,    \* the task record the handler read at its start
    person |-> person,
    amount |-> amount,
    idx    |-> idx ]    \* txSend / txUnsend: position of the payload in ledger

Replace(bag, old, new) == (bag (-) SetToBag({old})) (+) SetToBag({new})
Remove(bag, old) == bag (-) SetToBag({old})
Add(bag, new) == bag (+) SetToBag({new})
Pending == BagToSet(inflight)

Event(ev, t, p) == [ev |-> ev, task |-> t, person |-> p]

\* loadTransactionSummaries() at its first `await getTransactionSummary`:
\* the people of its closure, the position of the person asked for, and the
\* local object summaries
SummaryLoad(ids) ==
  [ people    |-> ids,
    pos       |-> 1,
    summaries |-> [p \in Persons |-> NoSummary] ]

\* rows of a conversation as the Task Store returns them
RowsOf(conv) ==
  SelectSeq([i \in 1..Len(TaskOrder) |-> remoteTasks[TaskOrder[i]]],
            LAMBDA x : x.chat_id = conv)

\* the synchronous head of loadTasks(): setLoading(true), then await getTasks;
\* the Task Store reads the rows when the request is sent, the answer (or the
\* failure) reaches the client later
LoadTasksRequest(conv) ==
  [Req("getTasks", conv, NoTask, Null, 0, 0) EXCEPT !.data = RowsOf(conv)]

\* the Login page as constructed: the e-mail tab, no QR session
LoginIdle ==
  /\ activeTab = "email"
  /\ qrCodeRef = 0
  /\ qrStatus = "generating"
  /\ pollingRef = FALSE
  /\ timerRef = FALSE
  /\ expiresIn = -1
  /\ pollPhase = 0
  /\ generating = EmptyBag
  /\ checks = EmptyBag
  /\ server = <<>>
  /\ handled = <<>>

Init ==
  /\ LoginIdle
  /\ \E shape \in Shapes :
       remoteTasks = [t \in TaskIds |-> InitialTask(t, shape)]
  /\ conversationId = "cA"
  /\ tasks = <<>>
  /\ completedTasks = <<>>
  /\ people = <<>>
  /\ loading = TRUE
  /\ showModal = FALSE
  \* useEffect([conversationId]) has called loadTasks() on mount
  /\ inflight = SetToBag({LoadTasksRequest("cA")})
  /\ timers = 0
  /\ ledger = <<>>
  /\ updLog = [t \in TaskIds |-> <<>>]
  /\ last = Event("mount", "none", Null)
  /\ opsDone = 0
  /\ transactionSummaries = [p \in Persons |-> NoSummary]
  /\ summaryLoads = EmptyBag
  /\ modalData = NoModal

\* ---------------------------------------------------------------- Task Store
\* the fields api.completeTask / api.uncompleteTask PATCH
PatchOf(r) ==
  IF r.kind = "updComplete"
  THEN [status |-> "completed", completed_by_user_id |-> r.person]
  ELSE [status |-> "not_started", completed_by_user_id |-> Null]

\* the Task Store applies PATCH /tasks?id=eq.<taskId> and answers
Patched(r) ==
  [remoteTasks EXCEPT
     ![r.task.id].status = PatchOf(r).status,
     ![r.task.id].completed_by_user_id = PatchOf(r).completed_by_user_id]

\* somebody else raises the budget of a completed task in the Task Store,
\* once per task
RemoteEditBudget ==
  \E t \in TaskIds :
    /\ remoteTasks[t].status = "completed"
    /\ remoteTasks[t].budget_cost > 0
    /\ remoteTasks[t].budget_cost = InitialTask(t, "noPayer").budget_cost
    /\ remoteTasks' = [remoteTasks EXCEPT ![t].budget_cost = @ + 10]
    /\ UNCHANGED summaryVars /\ UNCHANGED modalData /\ UNCHANGED loginVars
    /\ UNCHANGED <<conversationId, tasks, completedTasks, people, loading,
                   showModal, inflight, timers, ledger, updLog, last, opsDone>>

\* ---------------------------------------------------------------- loadTasks
\* the Dashboard selects another conversation; the effect calls loadTasks()
SwitchConversation ==
  \E c \in Conversations :
    /\ opsDone < MaxOps
    /\ c # conversationId
    /\ conversationId' = c
    /\ loading' = TRUE
    /\ inflight' = Add(inflight, LoadTasksRequest(c))
    /\ last' = Event("switch", "none", Null)
    /\ UNCHANGED summaryVars /\ UNCHANGED modalData /\ UNCHANGED loginVars
    /\ opsDone' = opsDone + 1
    /\ UNCHANGED <<remoteTasks, tasks, completedTasks, people, showModal,
                   timers, ledger, updLog>>

\* mutant: the catch keeps what the collections held
LoadTasksFailedKeeps ==
  \E r \in Pending :
    /\ r.kind = "getTasks"
    /\ loading' = FALSE
    /\ inflight' = Remove(inflight, r)
    /\ last' = Event("loadFailed", "none", Null)
    /\ UNCHANGED summaryVars /\ UNCHANGED modalData /\ UNCHANGED loginVars
    /\ UNCHANGED <<remoteTasks, conversationId, tasks, completedTasks, people,
                   showModal, timers, ledger, updLog, opsDone>>

\* catch of loadTasks: getTasks threw
LoadTasksFailed ==
  \E r \in Pending :
    /\ r.kind = "getTasks"
    /\ tasks' = <<>>
    /\ completedTasks' = <<>>
    /\ people' = <<>>
    /\ loading' = FALSE
    /\ inflight' = Remove(inflight, r)
    /\ last' = Event("loadFailed", "none", Null)
    /\ UNCHANGED summaryVars /\ UNCHANGED modalData /\ UNCHANGED loginVars
    /\ UNCHANGED <<remoteTasks, conversationId, showModal, timers, ledger,
                   updLog, opsDone>>

\* getTasks returned no rows: everything is emptied, loadTasks returns
LoadTasksEmpty ==
  \E r \in Pending :
    /\ r.kind = "getTasks" /\ r.data = <<>>
    /\ tasks' = <<>>
    /\ completedTasks' = <<>>
    /\ people' = <<>>
    /\ loading' = FALSE
    /\ inflight' = Remove(inflight, r)
    /\ last' = Event("loadEmpty", "none", Null)
    /\ UNCHANGED summaryVars /\ UNCHANGED modalData /\ UNCHANGED loginVars
    /\ UNCHANGED <<remoteTasks, conversationId, showModal, timers, ledger,
                   updLog, opsDone>>

\* mutant: the fetched rows are appended to what the collections hold
LoadTasksFetchedMerges ==
  \E r \in Pending :
    /\ r.kind = "getTasks" /\ r.data # <<>>
    /\ tasks' = tasks \o SelectSeq(r.data, IsActive)
    /\ completedTasks' = completedTasks \o SelectSeq(r.data, IsCompleted)
    /\ inflight' = Replace(inflight, r,
                           [r EXCEPT !.kind = "getProfiles",
                                     !.ids = UniqueUserIds(r.data)])
    /\ last' = Event("loadFetched", "none", Null)
    /\ UNCHANGED summaryVars /\ UNCHANGED modalData /\ UNCHANGED loginVars
    /\ UNCHANGED <<remoteTasks, conversationId, people, loading, showModal,
                   timers, ledger, updLog, opsDone>>

\* getTasks returned rows: partition them, then await getUserProfiles
LoadTasksFetched ==
  \E r \in Pending :
    /\ r.kind = "getTasks" /\ r.data # <<>>
    /\ tasks' = SelectSeq(r.data, IsActive)
    /\ completedTasks' = SelectSeq(r.data, IsCompleted)
    /\ inflight' = Replace(inflight, r,
                           [r EXCEPT !.kind = "getProfiles",
                                     !.ids = UniqueUserIds(r.data)])
    /\ last' = Event("loadFetched", "none", Null)
    /\ UNCHANGED summaryVars /\ UNCHANGED modalData /\ UNCHANGED loginVars
    /\ UNCHANGED <<remoteTasks, conversationId, people, loading, showModal,
                   timers, ledger, updLog, opsDone>>

\* getUserProfiles returned (it never throws): setPeople, finally
LoadTasksProfiles ==
  \E r \in Pending :
    /\ r.kind = "getProfiles"
    /\ people' = r.ids
    /\ loading' = FALSE
    /\ inflight' = Remove(inflight, r)
    /\ last' = Event("loadDone", "none", Null)
    \* useEffect([people]): `if (people.length > 0) loadTransactionSummaries()`
    /\ summaryLoads' = IF Len(r.ids) > 0
                       THEN Add(summaryLoads, SummaryLoad(r.ids))
                       ELSE summaryLoads
    /\ UNCHANGED transactionSummaries
    /\ UNCHANGED modalData /\ UNCHANGED loginVars
    /\ UNCHANGED <<remoteTasks, conversationId, tasks, completedTasks,
                   showModal, timers, ledger, updLog, opsDone>>

\* ---------------------------------------------------------------- summaries
\* `if (summary) summaries[person.id] = summary`; getTransactionSummary
\* answers null when the request failed or no row came back
WithSummary(l, summary) ==
  IF summary.found
  THEN [l.summaries EXCEPT ![l.people[l.pos]] = summary]
  ELSE l.summaries

\* the segment of loadTransactionSummaries that handled the answer for a
\* person, with what getTransactionSummary returned: a row or null
SummaryEvent(ev, p, summary) ==
  [ev |-> ev, task |-> "none", person |-> p, found |-> summary.found]

\* mutant: a failed fetch ends the loop, nothing is stored
SummaryFetchedStops ==
  \E l \in BagToSet(summaryLoads), summary \in SummaryRows \cup {NoSummary} :
    /\ l.pos < Len(l.people)
    /\ summaryLoads' =
         IF summary.found
         THEN Replace(summaryLoads, l,
                      [l EXCEPT !.pos = @ + 1,
                                !.summaries = WithSummary(l, summary)])
         ELSE Remove(summaryLoads, l)
    /\ last' = SummaryEvent("summaryFetched", l.people[l.pos], summary)
    /\ UNCHANGED <<remoteTasks, conversationId, tasks, completedTasks, people,
                   loading, showModal, inflight, timers, ledger, updLog,
                   opsDone, transactionSummaries>>
    /\ UNCHANGED modalData /\ UNCHANGED loginVars

\* getTransactionSummary answered for a person who is not the last of the
\* list: the loop awaits the summary of the next person
SummaryFetched ==
  \E l \in BagToSet(summaryLoads), summary \in SummaryRows \cup {NoSummary} :
    /\ l.pos < Len(l.people)
    /\ summaryLoads' = Replace(summaryLoads, l,
                               [l EXCEPT !.pos = @ + 1,
                                         !.summaries = WithSummary(l, summary)])
    /\ last' = SummaryEvent("summaryFetched", l.people[l.pos], summary)
    /\ UNCHANGED <<remoteTasks, conversationId, tasks, completedTasks, people,
                   loading, showModal, inflight, timers, ledger, updLog,
                   opsDone, transactionSummaries>>
    /\ UNCHANGED modalData /\ UNCHANGED loginVars

\* mutant: the rows of the refresh are merged into the stored map
SummaryStoredMerges ==
  \E l \in BagToSet(summaryLoads), summary \in SummaryRows \cup {NoSummary} :
    /\ l.pos = Len(l.people)
    /\ transactionSummaries' =
         [p \in Persons |-> IF WithSummary(l, summary)[p].found
                            THEN WithSummary(l, summary)[p]
                            ELSE transactionSummaries[p]]
    /\ summaryLoads' = Remove(summaryLoads, l)
    /\ last' = SummaryEvent("summaryStored", l.people[l.pos], summary)
    /\ UNCHANGED <<remoteTasks, conversationId, tasks, completedTasks, people,
                   loading, showModal, inflight, timers, ledger, updLog,
                   opsDone>>
    /\ UNCHANGED modalData /\ UNCHANGED loginVars

\* getTransactionSummary answered for the last person:
\* setTransactionSummaries(summaries)
SummaryStored ==
  \E l \in BagToSet(summaryLoads), summary \in SummaryRows \cup {NoSummary} :
    /\ l.pos = Len(l.people)
    /\ transactionSummaries' = WithSummary(l, summary)
    /\ summaryLoads' = Remove(summaryLoads, l)
    /\ last' = SummaryEvent("summaryStored", l.people[l.pos], summary)
    /\ UNCHANGED <<remoteTasks, conversationId, tasks, completedTasks, people,
                   loading, showModal, inflight, timers, ledger, updLog,
                   opsDone>>
    /\ UNCHANGED modalData /\ UNCHANGED loginVars

\* ---------------------------------------------------------------- progress
RECURSIVE TotalAmount(_, _)
\* mutant: the fallback adds up what was paid, budgets included
TotalAmount(seq, personId) ==
  IF seq = <<>> THEN 0
  ELSE TotalAmount(SubSeq(seq, 1, Len(seq) - 1), personId)
         + (IF seq[Len(seq)].completed_by_user_id = personId
            THEN Amount(seq[Len(seq)]) ELSE 0)

RECURSIVE TotalCoins(_, _)
\* personTasks.reduce((sum, t) => sum + Math.ceil((t.estimated_time_minutes
\* || 30) / 10), 0) over the completed tasks of the person
TotalCoins(seq, personId) ==
  IF seq = <<>> THEN 0
  ELSE TotalCoins(SubSeq(seq, 1, Len(seq) - 1), personId)
         + (IF seq[Len(seq)].completed_by_user_id = personId
            THEN Coins(seq[Len(seq)]) ELSE 0)

\* mutant: the amounts are shown with their sign
AbsSigned(x) == x

\* Math.abs
Abs(x) == IF x < 0 THEN -x ELSE x

\* a full bar: `Math.min(..., 100)` percent, counted in halves of a percent
FullHeight == 200

\* Math.min((amount / full) * 100, 100) in halves of a percent: the bars are
\* scaled by 10, 50 and 200, so every height is a whole number of halves
Height(amount, full) ==
  LET h == (amount * FullHeight) \div full
  IN IF h < FullHeight THEN h ELSE FullHeight

\* getPersonProgress(personId)
GetPersonProgress(personId) ==
  LET summary == transactionSummaries[personId]
      totalCoins == TotalCoins(completedTasks, personId)
  IN IF summary.found
     THEN [ total       |-> Abs(summary.total_amount),
            daily       |-> Abs(summary.daily),
            weekly      |-> Abs(summary.weekly),
            monthly     |-> Abs(summary.monthly),
            dayHeight   |-> Height(Abs(summary.daily), 10),
            weekHeight  |-> Height(Abs(summary.weekly), 50),
            monthHeight |-> Height(Abs(summary.monthly), 200) ]
     ELSE [ total       |-> totalCoins,
            daily       |-> totalCoins,
            weekly      |-> totalCoins,
            monthly     |-> totalCoins,
            dayHeight   |-> Height(totalCoins, 10),
            weekHeight  |-> Height(totalCoins, 50),
            monthHeight |-> Height(totalCoins, 200) ]

\* ---------------------------------------------------------------- ledger client
\* mutant: payer and payee exchanged
TransactionDataSwapped(task, personId, amount) ==
  [ from_user_id      |-> personId,
    to_user_id        |-> task.created_by_user_id,
    amount            |-> amount,
    net_amount        |-> amount,
    related_entity_id |-> task.id,
    metadata          |-> [task_id |-> task.id] ]

\* transactionData built by completeTask
TransactionData(task, personId, amount) ==
  [ from_user_id      |-> task.created_by_user_id,
    to_user_id        |-> personId,
    amount            |-> amount,
    net_amount        |-> amount,
    related_entity_id |-> task.id,
    metadata          |-> [task_id |-> task.id] ]

\* mutant: the payee is read after the completer was cleared
ReversalDataAfterClear(completedTask, amount) ==
  [ from_user_id |-> completedTask.created_by_user_id,
    to_user_id   |-> Null,
    amount       |-> amount,
    net_amount   |-> amount,
    metadata     |-> [task_id |-> completedTask.id] ]

\* mutant: the reversal carries the coins shown to the user, not the amount paid
ReversalDataCoins(completedTask, amount) ==
  [ from_user_id |-> completedTask.created_by_user_id,
    to_user_id   |-> completedTask.completed_by_user_id,
    amount       |-> Coins(completedTask),
    net_amount   |-> Coins(completedTask),
    metadata     |-> [task_id |-> completedTask.id] ]

\* reversalData built by uncompleteTask
ReversalData(completedTask, amount) ==
  [ from_user_id |-> completedTask.created_by_user_id,
    to_user_id   |-> completedTask.completed_by_user_id,
    amount       |-> amount,
    net_amount   |-> amount,
    metadata     |-> [task_id |-> completedTask.id] ]

\* mutant: the payload is the caller's object with the type added
PayloadSpread(type, data) ==
  [ transaction_type |-> type, result |-> "pending" ] @@ data

\* the payload api.createTransaction / api.createReversalTransaction POSTs: it
\* is built field by field from the caller's object, metadata is copied when
\* it has a key; result records what the ledger answered
Payload(type, data) ==
  [ transaction_type |-> type,
    from_user_id     |-> data.from_user_id,
    to_user_id       |-> data.to_user_id,
    amount           |-> data.amount,
    net_amount       |-> IF data.net_amount # 0 THEN data.net_amount
                         ELSE data.amount,
    result           |-> "pending" ]
  @@ (IF "metadata" \in DOMAIN data /\ DOMAIN data.metadata # {}
      THEN [metadata |-> data.metadata]
      ELSE [x \in {} |-> Null])

CreateTransaction(data) == Payload("send", data)
CreateReversalTransaction(data) == Payload("unsend", data)

\* ---------------------------------------------------------------- completeTask
\* the record completeTask puts into completedTasks
UpdatedTask(task, personId) ==
  [task EXCEPT !.status = "completed", !.completed_by_user_id = personId]

\* the elements are rendered only when loading is false
Rendered == ~loading

\* mutant: a task or person that is not found makes the handler reload
CompleteTaskNotFoundReloads ==
  \E t \in TaskIds, p \in Completers \cup Strangers :
    /\ Rendered /\ opsDone < MaxOps
    /\ (FindTask(tasks, t) = NoTask \/ p \notin Range(people))
    /\ loading' = TRUE
    /\ inflight' = Add(inflight, LoadTasksRequest(conversationId))
    /\ last' = Event("completeNotFound", t, p)
    /\ UNCHANGED summaryVars /\ UNCHANGED modalData /\ UNCHANGED loginVars
    /\ opsDone' = opsDone + 1
    /\ UNCHANGED <<remoteTasks, conversationId, tasks, completedTasks, people,
                   showModal, timers, ledger, updLog>>

\* `if (!task || !person) return`
CompleteTaskNotFound ==
  \E t \in TaskIds, p \in Completers \cup Strangers :
    /\ Rendered /\ opsDone < MaxOps
    /\ (FindTask(tasks, t) = NoTask \/ p \notin Range(people))
    /\ last' = Event("completeNotFound", t, p)
    /\ UNCHANGED summaryVars /\ UNCHANGED modalData /\ UNCHANGED loginVars
    /\ opsDone' = opsDone + 1
    /\ UNCHANGED <<remoteTasks, conversationId, tasks, completedTasks, people,
                   loading, showModal, inflight, timers, ledger, updLog>>

\* `if (showModal) return`
CompleteTaskGuarded ==
  \E t \in TaskIds, p \in Completers :
    /\ Rendered /\ opsDone < MaxOps
    /\ FindTask(tasks, t) # NoTask /\ p \in Range(people)
    /\ showModal
    /\ last' = Event("completeGuarded", t, p)
    /\ UNCHANGED summaryVars /\ UNCHANGED modalData /\ UNCHANGED loginVars
    /\ opsDone' = opsDone + 1
    /\ UNCHANGED <<remoteTasks, conversationId, tasks, completedTasks, people,
                   loading, showModal, inflight, timers, ledger, updLog>>

\* completeTask up to `await onFireAPI.completeTask(taskId, personId)`
CompleteTaskStart ==
  \E t \in TaskIds, p \in Completers :
    /\ Rendered /\ opsDone < MaxOps
    /\ FindTask(tasks, t) # NoTask /\ p \in Range(people)
    /\ ~showModal
    /\ showModal' = TRUE
    /\ inflight' = Add(inflight,
                       Req("updComplete", conversationId, FindTask(tasks, t),
                           p, Amount(FindTask(tasks, t)), 0))
    /\ updLog' = [updLog EXCEPT ![t] = Append(@, "completed")]
    /\ modalData' = [coins |-> Coins(FindTask(tasks, t))]
    /\ last' = Event("completeStart", t, p)
    /\ UNCHANGED summaryVars /\ UNCHANGED loginVars
    /\ opsDone' = opsDone + 1
    /\ UNCHANGED <<remoteTasks, conversationId, tasks, completedTasks, people,
                   loading, timers, ledger>>

\* the optimistic move: setTasks(filter), setCompletedTasks([...prev, updated])
CompletionApplied(r) ==
  /\ tasks' = RemoveTask(tasks, r.task.id)
  /\ completedTasks' = Append(completedTasks, UpdatedTask(r.task, r.person))

\* mutant: the missing creator is thrown into the outer catch, which reloads
CompleteTaskNoPayerReloads ==
  \E r \in Pending :
    /\ r.kind = "updComplete"
    /\ r.task.created_by_user_id = Null
    /\ remoteTasks' = Patched(r)
    /\ CompletionApplied(r)
    /\ loading' = TRUE
    /\ inflight' = Replace(inflight, r, LoadTasksRequest(r.conv))
    /\ timers' = timers + 1
    /\ last' = Event("completeNoPayer", r.task.id, r.person)
    /\ UNCHANGED summaryVars /\ UNCHANGED modalData /\ UNCHANGED loginVars
    /\ UNCHANGED <<conversationId, people, showModal, ledger, updLog, opsDone>>

\* the update succeeded, the task has no creator: return before the payment
CompleteTaskNoPayer ==
  \E r \in Pending :
    /\ r.kind = "updComplete"
    /\ r.task.created_by_user_id = Null
    /\ remoteTasks' = Patched(r)
    /\ CompletionApplied(r)
    /\ inflight' = Remove(inflight, r)
    /\ last' = Event("completeNoPayer", r.task.id, r.person)
    /\ UNCHANGED summaryVars /\ UNCHANGED modalData /\ UNCHANGED loginVars
    /\ UNCHANGED <<conversationId, people, loading, showModal,
                   timers, ledger, updLog, opsDone>>

\* mutant: the amount is validated before the status update is requested
CompleteTaskBadAmountEarly ==
  \E r \in Pending :
    /\ r.kind = "updComplete"
    /\ r.task.created_by_user_id # Null
    /\ r.amount <= 0
    /\ inflight' = Remove(inflight, r)
    /\ last' = Event("completeBadAmount", r.task.id, r.person)
    /\ UNCHANGED summaryVars /\ UNCHANGED modalData /\ UNCHANGED loginVars
    /\ UNCHANGED <<remoteTasks, conversationId, tasks, completedTasks, people,
                   loading, showModal, timers, ledger, updLog, opsDone>>

\* the update succeeded, `!amount || amount <= 0`: return before the payment
CompleteTaskBadAmount ==
  \E r \in Pending :
    /\ r.kind = "updComplete"
    /\ r.task.created_by_user_id # Null
    /\ r.amount <= 0
    /\ remoteTasks' = Patched(r)
    /\ CompletionApplied(r)
    /\ inflight' = Remove(inflight, r)
    /\ last' = Event("completeBadAmount", r.task.id, r.person)
    /\ UNCHANGED summaryVars /\ UNCHANGED modalData /\ UNCHANGED loginVars
    /\ UNCHANGED <<conversationId, people, loading, showModal,
                   timers, ledger, updLog, opsDone>>

\* the update succeeded: move the task, then await createTransaction
CompleteTaskPay ==
  \E r \in Pending :
    /\ r.kind = "updComplete"
    /\ r.task.created_by_user_id # Null
    /\ r.amount > 0
    /\ remoteTasks' = Patched(r)
    /\ CompletionApplied(r)
    /\ ledger' = Append(ledger,
                   CreateTransaction(TransactionData(r.task, r.person,
                                                     r.amount)))
    /\ inflight' = Replace(inflight, r,
                           [r EXCEPT !.kind = "txSend",
                                     !.idx = Len(ledger) + 1])
    /\ last' = Event("completePay", r.task.id, r.person)
    /\ UNCHANGED summaryVars /\ UNCHANGED modalData /\ UNCHANGED loginVars
    /\ UNCHANGED <<conversationId, people, loading, showModal,
                   timers, updLog, opsDone>>

\* mutant: the payment is submitted although the update failed
CompleteTaskFailedPays ==
  \E r \in Pending :
    /\ r.kind = "updComplete"
    /\ loading' = TRUE
    /\ ledger' = Append(ledger,
                   CreateTransaction(TransactionData(r.task, r.person,
                                                     r.amount)))
    /\ inflight' = Replace(inflight, r, LoadTasksRequest(r.conv))
    /\ timers' = timers + 1
    /\ last' = Event("completeFailed", r.task.id, r.person)
    /\ UNCHANGED summaryVars /\ UNCHANGED modalData /\ UNCHANGED loginVars
    /\ UNCHANGED <<remoteTasks, conversationId, tasks, completedTasks, people,
                   showModal, updLog, opsDone>>

\* mutant: the task is moved before the update is awaited, as in the revision
\* with the delayed reload
CompleteTaskFailedMoved ==
  \E r \in Pending :
    /\ r.kind = "updComplete"
    /\ CompletionApplied(r)
    /\ loading' = TRUE
    /\ inflight' = Replace(inflight, r, LoadTasksRequest(r.conv))
    /\ timers' = timers + 1
    /\ last' = Event("completeFailed", r.task.id, r.person)
    /\ UNCHANGED summaryVars /\ UNCHANGED modalData /\ UNCHANGED loginVars
    /\ UNCHANGED <<remoteTasks, conversationId, people, showModal, ledger,
                   updLog, opsDone>>

\* the update threw: outer catch calls loadTasks(), then the modal timer starts
CompleteTaskFailed ==
  \E r \in Pending :
    /\ r.kind = "updComplete"
    /\ loading' = TRUE
    /\ inflight' = Replace(inflight, r, LoadTasksRequest(r.conv))
    /\ timers' = timers + 1
    /\ last' = Event("completeFailed", r.task.id, r.person)
    /\ UNCHANGED summaryVars /\ UNCHANGED modalData /\ UNCHANGED loginVars
    /\ UNCHANGED <<remoteTasks, conversationId, tasks, completedTasks, people,
                   showModal, ledger, updLog, opsDone>>

\* createTransaction returned: log, then the modal timer starts
CompleteTaskPaid ==
  \E r \in Pending :
    /\ r.kind = "txSend"
    /\ ledger' = [ledger EXCEPT ![r.idx].result = "ok"]
    /\ inflight' = Remove(inflight, r)
    /\ timers' = timers + 1
    /\ last' = Event("sendOk", r.task.id, r.person)
    /\ UNCHANGED summaryVars /\ UNCHANGED modalData /\ UNCHANGED loginVars
    /\ UNCHANGED <<remoteTasks, conversationId, tasks, completedTasks, people,
                   loading, showModal, updLog, opsDone>>

\* mutant: the ledger failure reaches the outer catch, which reloads
CompleteTaskPayFailedReloads ==
  \E r \in Pending :
    /\ r.kind = "txSend"
    /\ ledger' = [ledger EXCEPT ![r.idx].result = "fail"]
    /\ loading' = TRUE
    /\ inflight' = Replace(inflight, r, LoadTasksRequest(r.conv))
    /\ timers' = timers + 1
    /\ last' = Event("sendFailed", r.task.id, r.person)
    /\ UNCHANGED summaryVars /\ UNCHANGED modalData /\ UNCHANGED loginVars
    /\ UNCHANGED <<remoteTasks, conversationId, tasks, completedTasks, people,
                   showModal, updLog, opsDone>>

\* mutant: the client POSTs the payload a second time when the first POST fails
CompleteTaskPayFailedRetries ==
  \E r \in Pending :
    /\ r.kind = "txSend"
    /\ Len(ledger) <= MaxOps
    /\ ledger' = Append([ledger EXCEPT ![r.idx].result = "fail"],
                        [ledger[r.idx] EXCEPT !.result = "pending"])
    /\ inflight' = Replace(inflight, r, [r EXCEPT !.idx = Len(ledger) + 1])
    /\ last' = Event("sendFailed", r.task.id, r.person)
    /\ UNCHANGED summaryVars /\ UNCHANGED modalData /\ UNCHANGED loginVars
    /\ UNCHANGED <<remoteTasks, conversationId, tasks, completedTasks, people,
                   loading, showModal, timers, updLog, opsDone>>

\* createTransaction threw: inner catch logs, then the modal timer starts
CompleteTaskPayFailed ==
  \E r \in Pending :
    /\ r.kind = "txSend"
    /\ ledger' = [ledger EXCEPT ![r.idx].result = "fail"]
    /\ inflight' = Remove(inflight, r)
    /\ timers' = timers + 1
    /\ last' = Event("sendFailed", r.task.id, r.person)
    /\ UNCHANGED summaryVars /\ UNCHANGED modalData /\ UNCHANGED loginVars
    /\ UNCHANGED <<remoteTasks, conversationId, tasks, completedTasks, people,
                   loading, showModal, updLog, opsDone>>

\* setTimeout(() => setShowModal(false), 3000) fires
ModalTimer ==
  /\ timers > 0
  /\ timers' = timers - 1
  /\ showModal' = FALSE
  /\ last' = Event("timer", "none", Null)
  /\ UNCHANGED summaryVars /\ UNCHANGED modalData /\ UNCHANGED loginVars
  /\ UNCHANGED <<remoteTasks, conversationId, tasks, completedTasks, people,
                 loading, inflight, ledger, updLog, opsDone>>

\* the user clicks the success modal: onClick={() => setShowModal(false)}
DismissModal ==
  /\ Rendered /\ showModal
  /\ showModal' = FALSE
  /\ last' = Event("dismiss", "none", Null)
  /\ UNCHANGED summaryVars /\ UNCHANGED modalData /\ UNCHANGED loginVars
  /\ UNCHANGED <<remoteTasks, conversationId, tasks, completedTasks, people,
                 loading, inflight, timers, ledger, updLog, opsDone>>

\* ---------------------------------------------------------------- uncompleteTask
\* mutant: the completer is not cleared
RevertedTaskKeepsCompleter(completedTask) ==
  [completedTask EXCEPT !.status = "not_started"]

\* the record uncompleteTask puts back into tasks
RevertedTask(completedTask) ==
  [completedTask EXCEPT !.status = "not_started",
                        !.completed_by_user_id = Null]

\* `if (!completedTask) return`
UncompleteTaskNotFound ==
  \E t \in TaskIds :
    /\ Rendered /\ opsDone < MaxOps
    /\ FindTask(completedTasks, t) = NoTask
    /\ last' = Event("uncompleteNotFound", t, Null)
    /\ UNCHANGED summaryVars /\ UNCHANGED modalData /\ UNCHANGED loginVars
    /\ opsDone' = opsDone + 1
    /\ UNCHANGED <<remoteTasks, conversationId, tasks, completedTasks, people,
                   loading, showModal, inflight, timers, ledger, updLog>>

\* uncompleteTask up to `await onFireAPI.uncompleteTask(taskId)`
UncompleteTaskStart ==
  \E t \in TaskIds :
    /\ Rendered /\ opsDone < MaxOps
    /\ FindTask(completedTasks, t) # NoTask
    /\ inflight' = Add(inflight,
                       Req("updUncomplete", conversationId,
                           FindTask(completedTasks, t),
                           FindTask(completedTasks, t).completed_by_user_id,
                           Amount(FindTask(completedTasks, t)), 0))
    /\ updLog' = [updLog EXCEPT ![t] = Append(@, "not_started")]
    /\ last' = Event("uncompleteStart", t, Null)
    /\ UNCHANGED summaryVars /\ UNCHANGED modalData /\ UNCHANGED loginVars
    /\ opsDone' = opsDone + 1
    /\ UNCHANGED <<remoteTasks, conversationId, tasks, completedTasks, people,
                   loading, showModal, timers, ledger>>

\* the optimistic reversal: setCompletedTasks(filter), setTasks([reverted, ...])
ReversalApplied(r) ==
  /\ completedTasks' = RemoveTask(completedTasks, r.task.id)
  /\ tasks' = <<RevertedTask(r.task)>> \o tasks

\* the update succeeded: move the task back, await createReversalTransaction
UncompleteTaskReverse ==
  \E r \in Pending :
    /\ r.kind = "updUncomplete"
    /\ remoteTasks' = Patched(r)
    /\ ReversalApplied(r)
    /\ ledger' = Append(ledger,
                   CreateReversalTransaction(ReversalData(r.task, r.amount)))
    /\ inflight' = Replace(inflight, r,
                           [r EXCEPT !.kind = "txUnsend",
                                     !.idx = Len(ledger) + 1])
    /\ last' = Event("uncompleteReverse", r.task.id, r.person)
    /\ UNCHANGED summaryVars /\ UNCHANGED modalData /\ UNCHANGED loginVars
    /\ UNCHANGED <<conversationId, people, loading, showModal,
                   timers, updLog, opsDone>>

\* mutant: the outer catch only logs
UncompleteTaskFailedNoReload ==
  \E r \in Pending :
    /\ r.kind = "updUncomplete"
    /\ inflight' = Remove(inflight, r)
    /\ last' = Event("uncompleteFailed", r.task.id, r.person)
    /\ UNCHANGED summaryVars /\ UNCHANGED modalData /\ UNCHANGED loginVars
    /\ UNCHANGED <<remoteTasks, conversationId, tasks, completedTasks, people,
                   loading, showModal, timers, ledger, updLog, opsDone>>

\* the update threw: outer catch calls loadTasks()
UncompleteTaskFailed ==
  \E r \in Pending :
    /\ r.kind = "updUncomplete"
    /\ loading' = TRUE
    /\ inflight' = Replace(inflight, r, LoadTasksRequest(r.conv))
    /\ last' = Event("uncompleteFailed", r.task.id, r.person)
    /\ UNCHANGED summaryVars /\ UNCHANGED modalData /\ UNCHANGED loginVars
    /\ UNCHANGED <<remoteTasks, conversationId, tasks, completedTasks, people,
                   showModal, timers, ledger, updLog, opsDone>>

\* createReversalTransaction returned
UncompleteTaskReversed ==
  \E r \in Pending :
    /\ r.kind = "txUnsend"
    /\ ledger' = [ledger EXCEPT ![r.idx].result = "ok"]
    /\ inflight' = Remove(inflight, r)
    /\ last' = Event("unsendOk", r.task.id, r.person)
    /\ UNCHANGED summaryVars /\ UNCHANGED modalData /\ UNCHANGED loginVars
    /\ UNCHANGED <<remoteTasks, conversationId, tasks, completedTasks, people,
                   loading, showModal, timers, updLog, opsDone>>

\* createReversalTransaction threw: inner catch logs and continues
UncompleteTaskReverseFailed ==
  \E r \in Pending :
    /\ r.kind = "txUnsend"
    /\ ledger' = [ledger EXCEPT ![r.idx].result = "fail"]
    /\ inflight' = Remove(inflight, r)
    /\ last' = Event("unsendFailed", r.task.id, r.person)
    /\ UNCHANGED summaryVars /\ UNCHANGED modalData /\ UNCHANGED loginVars
    /\ UNCHANGED <<remoteTasks, conversationId, tasks, completedTasks, people,
                   loading, showModal, timers, updLog, opsDone>>

\* ---------------------------------------------------------------- QR login
\* the seconds a QR code is shown: `new Date(Date.now() + 15 * 1000)`
QrLifetime == 15
\* the seconds between two status checks: `setInterval(checkQRStatus, 2000)`
PollPeriod == 2

\* the HUD is not mounted while the Login page is shown
HudIdle ==
  /\ remoteTasks = [t \in TaskIds |-> InitialTask(t, "noPayer")]
  /\ conversationId = "cA"
  /\ tasks = <<>>
  /\ completedTasks = <<>>
  /\ people = <<>>
  /\ loading = TRUE
  /\ showModal = FALSE
  /\ inflight = EmptyBag
  /\ timers = 0
  /\ ledger = <<>>
  /\ updLog = [t \in TaskIds |-> <<>>]
  /\ last = Event("login", "none", Null)
  /\ opsDone = 0
  /\ transactionSummaries = [p \in Persons |-> NoSummary]
  /\ summaryLoads = EmptyBag
  /\ modalData = NoModal

\* a running generateQRSession(): awaiting generate_qr_session ("fetch") or
\* displayQRCode ("display")
Generation(stage, code) == [stage |-> stage, code |-> code]

\* an awaited check_qr_status call for the code checkQRStatus read
Check(code) == [code |-> code]

\* checkQRStatus() up to its await: returns when qrCodeRef.current is null
CheckQRStatus(code) ==
  IF code = 0 THEN checks ELSE Add(checks, Check(code))

\* stopPolling(): clears both intervals
StopPolling ==
  /\ pollingRef' = FALSE
  /\ timerRef' = FALSE

\* the user selects the QR tab; the effect finds no qrCode and calls
\* generateQRSession(), which sets the status and awaits the session
SelectQRTab ==
  /\ activeTab = "email"
  /\ activeTab' = "qr"
  /\ qrStatus' = "generating"
  /\ generating' = Add(generating, Generation("fetch", 0))
  /\ StopPolling
  /\ UNCHANGED <<qrCodeRef, expiresIn, pollPhase, checks, server, handled>>
  /\ UNCHANGED hudVars

\* generate_qr_session answered with success: the server holds a new pending
\* session; the code and the expiry are stored, displayQRCode is awaited
GenerateQRSessionFetched ==
  \E g \in BagToSet(generating) :
    /\ g.stage = "fetch"
    /\ server' = Append(server, [status |-> "pending", display |-> FALSE])
    /\ qrCodeRef' = Len(server) + 1
    /\ expiresIn' = QrLifetime
    /\ generating' = Replace(generating, g,
                             Generation("display", Len(server) + 1))
    /\ UNCHANGED <<activeTab, qrStatus, pollingRef, timerRef, pollPhase,
                   checks, handled>>
    /\ UNCHANGED hudVars

\* generate_qr_session failed or answered without success: catch
GenerateQRSessionFailed ==
  \E g \in BagToSet(generating) :
    /\ g.stage = "fetch"
    /\ qrStatus' = "error"
    /\ generating' = Remove(generating, g)
    /\ UNCHANGED <<activeTab, qrCodeRef, pollingRef, timerRef, expiresIn,
                   pollPhase, checks, server, handled>>
    /\ UNCHANGED hudVars

\* displayQRCode returned: startPolling() checks at once and starts both
\* intervals, startTimer() runs updateTimer() at once, then the status is set
\* to waiting (also when updateTimer has just set it to expired)
StartPolling ==
  \E g \in BagToSet(generating) :
    /\ g.stage = "display"
    /\ qrCodeRef # 0 => BagCardinality(checks) < MaxChecks
    /\ checks' = CheckQRStatus(qrCodeRef)
    /\ pollingRef' = TRUE
    /\ pollPhase' = 0
    /\ timerRef' = TRUE
    /\ qrStatus' = "waiting"
    /\ generating' = Remove(generating, g)
    /\ UNCHANGED <<activeTab, qrCodeRef, expiresIn, server, handled>>
    /\ UNCHANGED hudVars

\* one second passes.  The timer interval, if live, runs updateTimer():
\* handleQRExpired() when no whole second remains.  The polling interval, if
\* live, runs checkQRStatus() every PollPeriod seconds.  Drawing the canvas
\* takes less than a second: no second passes while displayQRCode is awaited.
Tick ==
  LET left  == IF expiresIn > 0 THEN expiresIn - 1 ELSE expiresIn
      phase == IF pollingRef THEN (pollPhase + 1) % PollPeriod ELSE pollPhase
      fires == pollingRef /\ phase = 0
  IN /\ activeTab = "qr"
     /\ pollingRef \/ timerRef \/ expiresIn > 0
     /\ \A g \in BagToSet(generating) : g.stage # "display"
     /\ (fires /\ qrCodeRef # 0) => BagCardinality(checks) < MaxChecks
     /\ expiresIn' = left
     /\ pollPhase' = phase
     /\ checks' = IF fires THEN CheckQRStatus(qrCodeRef) ELSE checks
     /\ qrStatus' = IF timerRef /\ left = 0 THEN "expired" ELSE qrStatus
     /\ UNCHANGED <<activeTab, qrCodeRef, pollingRef, timerRef, generating,
                    server, handled>>
     /\ UNCHANGED hudVars

\* the mobile app scans a code and confirms the login, with or without a
\* display to link
ConfirmQRLogin ==
  \E n \in 1..Len(server), display \in BOOLEAN :
    /\ server[n].status = "pending"
    /\ server' = [server EXCEPT ![n] = [status |-> "confirmed",
                                        display |-> display]]
    /\ UNCHANGED <<activeTab, qrCodeRef, qrStatus, pollingRef, timerRef,
                   expiresIn, pollPhase, generating, checks, handled>>
    /\ UNCHANGED hudVars

\* the server's own lifetime of a session ends; it is longer than QrLifetime
\* (`instead of API's 5 minutes`), so the countdown of the newest session has
\* ended by then
ServerExpires ==
  \E n \in 1..Len(server) :
    /\ server[n].status = "pending"
    /\ n = Len(server) => expiresIn = 0
    /\ server' = [server EXCEPT ![n].status = "expired"]
    /\ UNCHANGED <<activeTab, qrCodeRef, qrStatus, pollingRef, timerRef,
                   expiresIn, pollPhase, generating, checks, handled>>
    /\ UNCHANGED hudVars

\* check_qr_status answered confirmed with a token: stopPolling(), then
\* handleDisplayLinked or handleQRSuccess, which set the status to success
CheckQRStatusConfirmed ==
  \E c \in BagToSet(checks) :
    /\ server[c.code].status = "confirmed"
    /\ StopPolling
    /\ qrStatus' = "success"
    /\ handled' = Append(handled,
                         [code    |-> c.code,
                          handler |-> IF server[c.code].display
                                      THEN "handleDisplayLinked"
                                      ELSE "handleQRSuccess"])
    /\ checks' = Remove(checks, c)
    /\ UNCHANGED <<activeTab, qrCodeRef, expiresIn, pollPhase, generating,
                   server>>
    /\ UNCHANGED hudVars

\* check_qr_status answered expired: stopPolling(), handleQRExpired()
CheckQRStatusExpired ==
  \E c \in BagToSet(checks) :
    /\ server[c.code].status = "expired"
    /\ StopPolling
    /\ qrStatus' = "expired"
    /\ checks' = Remove(checks, c)
    /\ UNCHANGED <<activeTab, qrCodeRef, expiresIn, pollPhase, generating,
                   server, handled>>
    /\ UNCHANGED hudVars

\* check_qr_status answered pending: polling continues
CheckQRStatusPending ==
  \E c \in BagToSet(checks) :
    /\ server[c.code].status = "pending"
    /\ checks' = Remove(checks, c)
    /\ UNCHANGED <<activeTab, qrCodeRef, qrStatus, pollingRef, timerRef,
                   expiresIn, pollPhase, generating, server, handled>>
    /\ UNCHANGED hudVars

\* the call threw or the answer has no success flag: logged
CheckQRStatusFailed ==
  \E c \in BagToSet(checks) :
    /\ checks' = Remove(checks, c)
    /\ UNCHANGED <<activeTab, qrCodeRef, qrStatus, pollingRef, timerRef,
                   expiresIn, pollPhase, generating, server, handled>>
    /\ UNCHANGED hudVars

\* the user clicks the expired code: stopPolling(), the code is cleared,
\* generateQRSession() is called
RefreshQRCode ==
  /\ activeTab = "qr"
  /\ qrStatus = "expired"
  /\ Len(server) + BagCardinality(generating) < MaxSessions
  /\ StopPolling
  /\ qrCodeRef' = 0
  /\ qrStatus' = "generating"
  /\ generating' = Add(generating, Generation("fetch", 0))
  /\ UNCHANGED <<activeTab, expiresIn, pollPhase, checks, server, handled>>
  /\ UNCHANGED hudVars

\* ---------------------------------------------------------------- specification
\* one conversation, nobody else writes to the Task Store
Next ==
  \/ LoadTasksFailed
  \/ LoadTasksFetched
  \/ LoadTasksProfiles
  \/ CompleteTaskNotFound
  \/ CompleteTaskGuarded
  \/ CompleteTaskStart
  \/ CompleteTaskNoPayer
  \/ CompleteTaskPay
  \/ CompleteTaskFailed
  \/ CompleteTaskPaid
  \/ CompleteTaskPayFailed
  \/ ModalTimer
  \/ DismissModal
  \/ UncompleteTaskNotFound
  \/ UncompleteTaskStart
  \/ UncompleteTaskReverse
  \/ UncompleteTaskFailed
  \/ UncompleteTaskReversed
  \/ UncompleteTaskReverseFailed

Spec == Init /\ [][Next]_vars

\* the same, with budgets edited in the Task Store behind the client's back
NextEdit ==
  \/ Next
  \/ RemoteEditBudget

\* the edit runs start from the conversation whose second task is open
InitEdit ==
  /\ Init
  /\ remoteTasks = [t \in TaskIds |-> InitialTask(t, "noPayer")]

SpecEdit == InitEdit /\ [][NextEdit]_vars

\* the same, with the Dashboard switching the conversation shown
NextSwitch ==
  \/ Next
  \/ SwitchConversation
  \/ LoadTasksEmpty

SpecSwitch == Init /\ [][NextSwitch]_vars

\* the runs in which every remote call is accepted: no fetch, status update
\* or ledger submission fails
NextAccepted ==
  \/ SwitchConversation
  \/ LoadTasksEmpty
  \/ LoadTasksFetched
  \/ LoadTasksProfiles
  \/ CompleteTaskNotFound
  \/ CompleteTaskGuarded
  \/ CompleteTaskStart
  \/ CompleteTaskNoPayer
  \/ CompleteTaskPay
  \/ CompleteTaskPaid
  \/ ModalTimer
  \/ DismissModal
  \/ UncompleteTaskNotFound
  \/ UncompleteTaskStart
  \/ UncompleteTaskReverse
  \/ UncompleteTaskReversed

SpecAccepted == Init /\ [][NextAccepted]_vars

\* the HUD loading a conversation that holds one task, created by p1, with
\* the given budget and estimate; the other task belongs to another
\* conversation
OneTaskLoading(b, e) ==
  /\ LoginIdle
  /\ remoteTasks =
       [t \in TaskIds |->
          IF t = "t1"
          THEN [InitialTask(t, "noPayer") EXCEPT
                  !.budget_cost = b, !.estimated_time_minutes = e]
          ELSE [InitialTask(t, "noPayer") EXCEPT !.chat_id = "cB"]]
  /\ conversationId = "cA"
  /\ tasks = <<>>
  /\ completedTasks = <<>>
  /\ people = <<>>
  /\ loading = TRUE
  /\ showModal = FALSE
  /\ inflight = SetToBag({LoadTasksRequest("cA")})
  /\ timers = 0
  /\ ledger = <<>>
  /\ updLog = [t \in TaskIds |-> <<>>]
  /\ last = Event("mount", "none", Null)
  /\ opsDone = 0
  /\ summaryLoads = EmptyBag
  /\ modalData = NoModal

\* the HUD as mounted on that conversation: no summary stored yet
InitOneTask(b, e) ==
  /\ OneTaskLoading(b, e)
  /\ transactionSummaries = [p \in Persons |-> NoSummary]

\* every step of the task flows but the one for a task without creator, which
\* a conversation of one task created by p1 never takes
NextOneTask ==
  \/ LoadTasksFailed
  \/ LoadTasksFetched
  \/ LoadTasksProfiles
  \/ CompleteTaskNotFound
  \/ CompleteTaskGuarded
  \/ CompleteTaskStart
  \/ CompleteTaskPay
  \/ CompleteTaskFailed
  \/ CompleteTaskPaid
  \/ CompleteTaskPayFailed
  \/ ModalTimer
  \/ DismissModal
  \/ UncompleteTaskNotFound
  \/ UncompleteTaskStart
  \/ UncompleteTaskReverse
  \/ UncompleteTaskFailed
  \/ UncompleteTaskReversed
  \/ UncompleteTaskReverseFailed

\* the reward runs: the task has any budget and estimate
InitReward == \E b \in Budgets, e \in Estimates : InitOneTask(b, e)

NextReward ==
  \/ NextOneTask
  \/ CompleteTaskBadAmount

SpecReward == InitReward /\ [][NextReward]_vars

\* the summary runs: the Ledger answers the summary requests, which the other
\* runs leave unanswered (no step of the task flows reads a summary)
InitSummary ==
  InitOneTask(InitialTask("t1", "noPayer").budget_cost,
              InitialTask("t1", "noPayer").estimated_time_minutes)

NextSummary ==
  \/ NextOneTask
  \/ SummaryFetched
  \/ SummaryStored

SpecSummary == InitSummary /\ [][NextSummary]_vars

\* the progress runs: the HUD loads the conversation while it holds the row
\* an earlier refresh stored for the person who completes tasks
InitProgress ==
  /\ OneTaskLoading(InitialTask("t1", "noPayer").budget_cost,
                    InitialTask("t1", "noPayer").estimated_time_minutes)
  /\ \E row \in ProgressRows :
       transactionSummaries =
         [p \in Persons |-> IF p \in Completers THEN row ELSE NoSummary]

NextProgress == NextOneTask

SpecProgress == InitProgress /\ [][NextProgress]_vars

\* the steps of Next the user does not take: the continuations of the awaited
\* calls of the task flows and the timer callback
TaskAnswers ==
  \/ LoadTasksFailed
  \/ LoadTasksFetched
  \/ LoadTasksProfiles
  \/ CompleteTaskNoPayer
  \/ CompleteTaskPay
  \/ CompleteTaskFailed
  \/ CompleteTaskPaid
  \/ CompleteTaskPayFailed
  \/ ModalTimer
  \/ UncompleteTaskReverse
  \/ UncompleteTaskFailed
  \/ UncompleteTaskReversed
  \/ UncompleteTaskReverseFailed

\* every remote call of the task flows returns or throws, every timer fires;
\* the user owes no step
SpecFair == Spec /\ WF_vars(TaskAnswers)

\* the steps the user does not take: answers of remote calls and the timer
Answers ==
  \/ LoadTasksFailed
  \/ LoadTasksFetched
  \/ LoadTasksProfiles
  \/ CompleteTaskPay
  \/ CompleteTaskFailed
  \/ CompleteTaskPaid
  \/ CompleteTaskPayFailed
  \/ ModalTimer
  \/ UncompleteTaskReverse
  \/ UncompleteTaskFailed
  \/ UncompleteTaskReversed
  \/ UncompleteTaskReverseFailed
  \/ SummaryFetched
  \/ SummaryStored

\* every remote call is answered or fails, every timer fires
SpecSummaryFair == SpecSummary /\ WF_vars(Answers)

\* the Login page with the QR tab
NextLogin ==
  \/ SelectQRTab
  \/ GenerateQRSessionFetched
  \/ GenerateQRSessionFailed
  \/ StartPolling
  \/ Tick
  \/ ConfirmQRLogin
  \/ ServerExpires
  \/ CheckQRStatusConfirmed
  \/ CheckQRStatusExpired
  \/ CheckQRStatusPending
  \/ CheckQRStatusFailed
  \/ RefreshQRCode

InitLogin == LoginIdle /\ HudIdle

SpecLogin == InitLogin /\ [][NextLogin]_vars

TypeOK ==
  /\ loading \in BOOLEAN
  /\ showModal \in BOOLEAN
  /\ conversationId \in Conversations
  /\ timers \in 0..MaxOps
  /\ opsDone \in 0..MaxOps
  /\ Len(ledger) <= MaxOps
  /\ \A p \in Persons :
       transactionSummaries[p]
         \in SummaryRows \cup ProgressRows \cup {NoSummary}
  /\ \A l \in BagToSet(summaryLoads) : l.pos \in 1..Len(l.people)

\* ---------------------------------------------------------------- properties
\* positions of the ledger payloads of one direction for one task
EntriesFor(t, type) ==
  {i \in 1..Len(ledger) :
     ledger[i].metadata.task_id = t /\ ledger[i].transaction_type = type}

RECURSIVE SumAmounts(_, _)
\* sum of the amounts of all payloads POSTed for a task, up to position n
SumAmounts(t, n) ==
  IF n = 0 THEN 0
  ELSE SumAmounts(t, n - 1)
         + (IF ledger[n].metadata.task_id = t THEN ledger[n].amount ELSE 0)

\* the number of awaited getTasks calls
LoadsIn(bag) ==
  BagCardinality([x \in {y \in BagToSet(bag) : y.kind = "getTasks"} |-> bag[x]])

\* C1: as long as uncompleteTask was never requested for a task, at most one
\* status update to completed is requested for it and at most one send payload
\* is POSTed for it.
C1_CompleteTwiceOneUpdate ==
  \A t \in TaskIds :
    (\A i \in 1..Len(updLog[t]) : updLog[t][i] = "completed")
      => /\ Len(updLog[t]) <= 1
         /\ Cardinality(EntriesFor(t, "send")) <= 1

\* C2: a task completed once and uncompleted once, both payloads accepted by
\* the ledger: the amounts POSTed for the task sum to 0.
C2_AmountsSumToZero ==
  \A t \in TaskIds :
    ( /\ updLog[t] = <<"completed", "not_started">>
      /\ Cardinality(EntriesFor(t, "send")) = 1
      /\ Cardinality(EntriesFor(t, "unsend")) = 1
      /\ \A i \in 1..Len(ledger) :
           ledger[i].metadata.task_id = t => ledger[i].result = "ok" )
      => SumAmounts(t, Len(ledger)) = 0

\* C3: every task in tasks or completedTasks has status completed exactly when
\* its completed_by_user_id is set.
C3_StatusIffCompleter ==
  \A x \in Range(tasks) \cup Range(completedTasks) :
    (x.status = "completed") <=> (x.completed_by_user_id # Null)

\* C3 witness: an optimistic reversal has put a record back into tasks while
\* completedTasks holds a record too.
C3_Witness ==
  /\ last.ev = "uncompleteReverse"
  /\ FindTask(tasks, last.task) # NoTask
  /\ completedTasks # <<>>

\* C4: the step of completeTask that follows a successful update of a task
\* without creator leaves the task in completedTasks with status completed,
\* POSTs nothing to the ledger and starts no reload.
C4_NoPayerStillCompleted ==
  [][ last'.ev = "completeNoPayer"
        => /\ \E x \in Range(completedTasks') :
                /\ x.id = last'.task
                /\ x.status = "completed"
                /\ x.created_by_user_id = Null
           /\ last'.task \notin Ids(tasks')
           /\ ledger' = ledger
           /\ EntriesFor(last'.task, "send") = {}
           /\ LoadsIn(inflight') = LoadsIn(inflight)
           /\ loading' = loading ]_vars

C4_Witness ==
  /\ last.ev = "completeNoPayer"
  /\ FindTask(completedTasks, last.task).created_by_user_id = Null
  /\ remoteTasks[last.task].status = "completed"

\* C5: when the catch of loadTasks has run, tasks and completedTasks are empty.
C5_FetchFailureEmpties ==
  last.ev = "loadFailed" => tasks = <<>> /\ completedTasks = <<>>

\* C5 witness: a reload fails after a flow had been started from a loaded cache.
C5_Witness ==
  /\ last.ev = "loadFailed"
  /\ \E t \in TaskIds : updLog[t] # <<>>

\* C6: the step of completeTask that follows a successful update of a task
\* with a creator and a positive amount removes the task from tasks, puts it
\* into completedTasks as completed by the person, and POSTs exactly one send
\* payload from the creator to that person with the task's amount.
C6_CompleteMovesAndPays ==
  [][ last'.ev = "completePay"
        => LET e == ledger'[Len(ledger')]
           IN /\ last'.task \notin Ids(tasks')
              /\ Len(ledger') = Len(ledger) + 1
              /\ SubSeq(ledger', 1, Len(ledger)) = ledger
              /\ \E x \in Range(completedTasks') :
                   /\ x.id = last'.task
                   /\ x.status = "completed"
                   /\ x.completed_by_user_id = last'.person
                   /\ e.transaction_type = "send"
                   /\ e.metadata.task_id = x.id
                   /\ e.from_user_id = x.created_by_user_id
                   /\ e.from_user_id # Null
                   /\ e.to_user_id = last'.person
                   /\ e.amount = Amount(x)
                   /\ e.amount > 0 ]_vars

C6_Witness ==
  /\ last.ev = "sendOk"
  /\ last.person = "p2"
  /\ FindTask(completedTasks, last.task).created_by_user_id = "p1"
  /\ \E i \in EntriesFor(last.task, "send") : ledger[i].result = "ok"

CancelledBy(i) ==
  {j \in 1..(i - 1) :
     /\ ledger[j].transaction_type = "send"
     /\ ledger[j].metadata.task_id = ledger[i].metadata.task_id
     /\ \A k \in (j + 1)..(i - 1) :
          ~(ledger[k].transaction_type = "send"
              /\ ledger[k].metadata.task_id = ledger[i].metadata.task_id)}

\* the budget of the task is the one the Task Store first held
BudgetUnedited(t) ==
  remoteTasks[t].budget_cost = InitialTask(t, "noPayer").budget_cost

C9_UpdateFailureAborts ==
  [][ last'.ev \in {"completeFailed", "uncompleteFailed"}
        => /\ tasks' = tasks
           /\ completedTasks' = completedTasks
           /\ ledger' = ledger ]_vars

C9_Witness ==
  /\ last.ev = "completeFailed"
  /\ FindTask(tasks, last.task) # NoTask
  /\ remoteTasks[last.task].status = "not_started"

\* C10: the step that handles a failed ledger submission, send or unsend,
\* leaves tasks and completedTasks as they are and starts no reload.
C10_LedgerFailureKeepsState ==
  [][ last'.ev \in {"sendFailed", "unsendFailed"}
        => /\ tasks' = tasks
           /\ completedTasks' = completedTasks
           /\ remoteTasks' = remoteTasks
           /\ loading' = loading
           /\ LoadsIn(inflight') = LoadsIn(inflight) ]_vars

C10_Witness ==
  /\ last.ev = "sendFailed"
  /\ FindTask(completedTasks, last.task) # NoTask
  /\ \E i \in EntriesFor(last.task, "send") : ledger[i].result = "fail"

\* the number of completeTask flows that have passed the guard and still await
\* a remote call
CompletionsIn(bag) ==
  BagCardinality([x \in {y \in BagToSet(bag) :
                           y.kind \in {"updComplete", "txSend"}} |-> bag[x]])

\* C11: at most one completeTask flow is awaiting a remote call at any time.
C11_OneCompletionInFlight ==
  CompletionsIn(inflight) <= 1

\* C15: for a task that was open when the component mounted, the unsend
\* payloads POSTed never outnumber the send payloads POSTed.
C15_ReversalsWithinForwards ==
  \A t \in TaskIds :
    (updLog[t] # <<>> /\ updLog[t][1] = "completed")
      => Cardinality(EntriesFor(t, "unsend"))
           <= Cardinality(EntriesFor(t, "send"))

\* C16: the status updates requested for a task alternate: no two consecutive
\* requests carry the same status.
C16_UpdatesAlternate ==
  \A t \in TaskIds :
    \A i \in 1..(Len(updLog[t]) - 1) : updLog[t][i] # updLog[t][i + 1]

StatedReward(task) ==
  IF task.budget_cost # 0 THEN task.budget_cost
  ELSE CeilDiv10(task.estimated_time_minutes)

C17_StaleFetchDiscarded ==
  [][ last'.ev = "loadFetched"
        => \A x \in Range(tasks') \cup Range(completedTasks') :
             x.chat_id = conversationId' ]_vars

RECURSIVE SumCompleted(_, _, _)
\* sum over the first n entries of completedTasks completed by a person of the
\* reward ("reward": budget, else coins) or of the coins of the entry
SumCompleted(personId, n, what) ==
  IF n = 0 THEN 0
  ELSE LET t == completedTasks[n]
           e == IF t.estimated_time_minutes = 0 THEN 30
                ELSE t.estimated_time_minutes
           c == (e + 9) \div 10
           v == IF what = "reward" /\ t.budget_cost # 0 THEN t.budget_cost
                ELSE c
       IN SumCompleted(personId, n - 1, what)
            + (IF t.completed_by_user_id = personId THEN v ELSE 0)

RefreshStarted == last.ev = "loadDone" /\ summaryLoads # EmptyBag

\* C19: once a ledger submission of a flow has succeeded, a refresh of the
\* summaries is started later on.
C19_PaymentLeadsToRefresh ==
  (last.ev \in {"sendOk", "unsendOk"}) ~> RefreshStarted

\* C20: a refresh goes on to the next person whatever an answer was, ends only
\* with the answer for the last person of its list, and then stores the row of
\* every person whose fetch succeeded.
C20_FailedFetchDoesNotBlock ==
  [][ /\ last'.ev = "summaryFetched"
        => /\ BagCardinality(summaryLoads') = BagCardinality(summaryLoads)
           /\ \E l \in BagToSet(summaryLoads') :
                l.pos >= 2 /\ l.people[l.pos - 1] = last'.person
      /\ BagCardinality(summaryLoads') < BagCardinality(summaryLoads)
        => last'.ev = "summaryStored"
      /\ last'.ev = "summaryStored"
        => \E l \in BagToSet(summaryLoads) :
             /\ summaryLoads' = Remove(summaryLoads, l)
             /\ l.pos = Len(l.people)
             /\ l.people[l.pos] = last'.person
             /\ \A i \in 1..(Len(l.people) - 1) :
                  l.summaries[l.people[i]].found
                    => transactionSummaries'[l.people[i]]
                         = l.summaries[l.people[i]] ]_vars

\* C20 witness: a refresh has ended in which the fetch for p1 failed and the
\* one for p2, asked after it, succeeded and was stored.
C20_Witness ==
  /\ last.ev = "summaryStored"
  /\ last.person = "p2"
  /\ ~transactionSummaries["p1"].found
  /\ transactionSummaries["p2"].found

\* ---------------------------------------------------------------- ledger client
\* C21: no payload with an amount that is not positive is POSTed to the
\* ledger: createTransaction and createReversalTransaction reject it.
C21_NonPositiveRejected ==
  \A i \in 1..Len(ledger) : ledger[i].amount > 0

\* C22: every send payload has a positive amount and every unsend payload a
\* negative amount.
C22_SignCorrect ==
  \A i \in 1..Len(ledger) :
    /\ ledger[i].transaction_type = "send" => ledger[i].amount > 0
    /\ ledger[i].transaction_type = "unsend" => ledger[i].amount < 0

\* C23: a call of completeTask that finds no task or no person, and a call of
\* uncompleteTask that finds no completed task, change nothing and call
\* nothing; the handlers go on only when what they look for is found.
C23_NotFoundIsNoOp ==
  [][ /\ last'.ev \in {"completeNotFound", "uncompleteNotFound"}
        => UNCHANGED <<remoteTasks, conversationId, tasks, completedTasks,
                       people, loading, showModal, inflight, timers, ledger,
                       updLog>>
      /\ last'.ev = "completeNotFound"
        => \/ FindTask(tasks, last'.task) = NoTask
           \/ last'.person \notin Range(people)
      /\ last'.ev = "uncompleteNotFound"
        => FindTask(completedTasks, last'.task) = NoTask
      /\ last'.ev = "completeStart"
        => /\ FindTask(tasks, last'.task) # NoTask
           /\ last'.person \in Range(people)
      /\ last'.ev = "uncompleteStart"
        => FindTask(completedTasks, last'.task) # NoTask ]_vars

\* completeTask was called for a task of the active collection with a person
\* that is not in the Person list, after a payment
C23_Witness ==
  /\ last.ev = "completeNotFound"
  /\ FindTask(tasks, last.task) # NoTask
  /\ last.person \notin Range(people)
  /\ ledger # <<>>

\* C24: for a task without creator no unsend payload is ever POSTed.
C24_NoPayerNoReversal ==
  \A t \in TaskIds :
    remoteTasks[t].created_by_user_id = Null => EntriesFor(t, "unsend") = {}

TxIn(bag) ==
  BagCardinality([x \in {y \in BagToSet(bag) : y.kind \in {"txSend", "txUnsend"}}
                    |-> bag[x]])

\* how often a status was requested for a task
CountOf(seq, v) == Cardinality({i \in 1..Len(seq) : seq[i] = v})

\* C26: a POST that fails is not repeated: the step that handles the failure
\* adds no payload and leaves no POST awaited for it; no step adds more than
\* one payload; for every task there are at most as many send payloads as
\* completeTask flows and as many unsend payloads as uncompleteTask flows.
C26_NoRetry ==
  [][ /\ last'.ev \in {"sendFailed", "unsendFailed"}
        => /\ Len(ledger') = Len(ledger)
           /\ TxIn(inflight') = TxIn(inflight) - 1
           /\ \E i \in 1..Len(ledger) :
                /\ ledger[i].result = "pending"
                /\ ledger'[i].result = "fail"
                /\ ledger[i].metadata.task_id = last'.task
      /\ Len(ledger') <= Len(ledger) + 1
      /\ \A t \in TaskIds :
           /\ Cardinality(EntriesFor(t, "send")')
                <= CountOf(updLog'[t], "completed")
           /\ Cardinality(EntriesFor(t, "unsend")')
                <= CountOf(updLog'[t], "not_started") ]_vars

\* a POST of completeTask has failed, a POST of uncompleteTask has failed, and
\* each flow has left one payload
C26_Witness ==
  /\ last.ev = "unsendFailed"
  /\ Len(ledger) = 2
  /\ ledger[1].result = "fail" /\ ledger[2].result = "fail"
  /\ TxIn(inflight) = 0

\* ---------------------------------------------------------------- load
\* the awaited calls a step has added
Started(bag, bag2) ==
  {x \in BagToSet(bag2) : CopiesIn(x, bag2) > CopiesIn(x, bag)}

\* C29: the step that applies fetched rows leaves in completedTasks exactly
\* the fetched rows with status completed and in tasks exactly the other
\* fetched rows, each once; a fetch without rows leaves both empty.
C29_LoadPartitionsFetched ==
  [][ /\ last'.ev = "loadFetched"
        => \E r \in Started(inflight, inflight') :
             /\ r.kind = "getProfiles" /\ r.data # <<>>
             /\ Range(completedTasks')
                  = {x \in Range(r.data) : x.status = "completed"}
             /\ Range(tasks') = {x \in Range(r.data) : x.status # "completed"}
             /\ Len(tasks') + Len(completedTasks') = Len(r.data)
      /\ last'.ev = "loadEmpty"
        => tasks' = <<>> /\ completedTasks' = <<>> ]_vars

\* the conversation was left and selected again after a completion: the rows
\* fetched replace what was held, t1 now among the completed
C29_Witness ==
  /\ last.ev = "loadFetched"
  /\ opsDone = MaxOps
  /\ "t1" \in Ids(completedTasks)
  /\ Len(tasks) + Len(completedTasks) = 2

\* the ids the fetched rows name
UsersOf(data) ==
  UNION {Range(x.assignee_user_ids)
           \cup ({x.completed_by_user_id, x.created_by_user_id} \ {Null})
         : x \in Range(data)}

\* the first fetched row that names an id
FirstRow(id, data) ==
  CHOOSE i \in 1..Len(data) :
    /\ id \in UsersOf(<<data[i]>>)
    /\ \A j \in 1..(i - 1) : id \notin UsersOf(<<data[j]>>)

\* a Person list as the load derives it from fetched rows
PersonListOf(list, data) ==
  /\ Len(list) >= 1
  /\ list[1] = UserId
  /\ \A i, j \in 1..Len(list) : list[i] = list[j] => i = j
  /\ Range(list) = {UserId} \cup UsersOf(data)
  /\ \A i, j \in 2..Len(list) :
       i < j => FirstRow(list[i], data) <= FirstRow(list[j], data)

\* C30 as stated: after every load that succeeded, also one without rows, the
\* Person list is the list derived from the fetched rows with the signed-in
\* user first.
C30_PersonListAfterEveryLoad ==
  [][ /\ last'.ev = "loadDone"
        => \E r \in Started(inflight', inflight) :
             r.kind = "getProfiles" /\ PersonListOf(people', r.data)
      /\ last'.ev = "loadEmpty" => PersonListOf(people', <<>>) ]_vars

\* C30 amended: after a load that fetched at least one row the Person list
\* has no duplicate, starts with the signed-in user, and holds exactly that
\* user and the assignees, completers and creators of the fetched rows, in the
\* order of the first row that names them; after a load that fetched no rows
\* the Person list is empty.
C30_PersonListAfterFetchedRows ==
  [][ /\ last'.ev = "loadDone"
        => \E r \in Started(inflight', inflight) :
             /\ r.kind = "getProfiles" /\ r.data # <<>>
             /\ PersonListOf(people', r.data)
      /\ last'.ev = "loadEmpty" => people' = <<>> ]_vars

\* a load of two rows has finished: p2 is named by the first row, p3 by the
\* second only
C30_Witness ==
  /\ last.ev = "loadDone"
  /\ people = <<"p1", "p2", "p3">>
  /\ opsDone > 0

\* ---------------------------------------------------------------- QR login
\* how often handleQRSuccess / handleDisplayLinked ran for a code
HandledFor(n, runs) == Cardinality({i \in 1..Len(runs) : runs[i].code = n})

\* C27: the step that handles a confirmed answer leaves no interval live;
\* once a confirmed answer was handled for a code no status check is started
\* for that code; handleQRSuccess / handleDisplayLinked runs at most once for
\* a code.
C27_ConfirmedStopsPolling ==
  [][ /\ Len(handled') > Len(handled) => ~pollingRef' /\ ~timerRef'
      /\ \A n \in 1..Len(server) :
           HandledFor(n, handled) > 0
             => CopiesIn(Check(n), checks') <= CopiesIn(Check(n), checks)
      /\ \A n \in 1..Len(server) : HandledFor(n, handled') <= 1 ]_vars

\* the code shown has expired and the page says so: its countdown has ended
\* or the server holds its session as expired
CodeExpired ==
  /\ qrStatus = "expired"
  /\ qrCodeRef # 0
  /\ (expiresIn = 0 \/ server[qrCodeRef].status = "expired")

\* C28: while the code shown is expired and refreshQRCode has not cleared it,
\* no step sets the status to success and no step starts a status check for
\* the code.
C28_ExpiredStaysExpired ==
  [][ CodeExpired
        => /\ qrStatus' # "success"
           /\ CopiesIn(Check(qrCodeRef), checks')
                <= CopiesIn(Check(qrCodeRef), checks) ]_vars

\* ---------------------------------------------------------------- summaries
\* C31: the stored summaries are rebuilt wholesale by every refresh: when a
\* run of loadTransactionSummaries ends, the stored map holds a row exactly
\* for the persons whose fetch returned one in that run, with that row, and
\* nothing an earlier refresh stored survives.
C31_SummariesRebuilt ==
  [][ last'.ev = "summaryStored"
        => \E l \in BagToSet(summaryLoads) :
             /\ summaryLoads' = Remove(summaryLoads, l)
             /\ l.pos = Len(l.people)
             /\ l.people[l.pos] = last'.person
             /\ \A p \in Persons :
                  IF p = last'.person
                  THEN transactionSummaries'[p].found = last'.found
                  ELSE IF p \in Range(l.people)
                  THEN transactionSummaries'[p] = l.summaries[p]
                  ELSE ~transactionSummaries'[p].found ]_vars

\* C31 witness: a second refresh has ended, after a failed status update made
\* the HUD load again, and it stored no row for p1 and for p2, whose fetches
\* failed this time.
C31_Witness ==
  /\ last.ev = "summaryStored"
  /\ ~last.found
  /\ summaryLoads = EmptyBag
  /\ inflight = EmptyBag
  /\ updLog["t1"] = <<"completed">>
  /\ remoteTasks["t1"].status # "completed"
  /\ Len(people) = 2
  /\ \A p \in Persons : ~transactionSummaries[p].found

\* ---------------------------------------------------------------- progress
\* C34: for every stored summary row, whatever the sign of its amounts, the
\* daily, weekly, monthly and lifetime values of getPersonProgress are the
\* absolute values of the row's amounts, and every bar height lies between
\* nothing and a full bar.
C34_ProgressFromSummary ==
  \A p \in Persons :
    transactionSummaries[p].found
      => LET s == transactionSummaries[p]
             g == GetPersonProgress(p)
         IN /\ g.total >= 0 /\ g.total \in {s.total_amount, -s.total_amount}
            /\ g.daily >= 0 /\ g.daily \in {s.daily, -s.daily}
            /\ g.weekly >= 0 /\ g.weekly \in {s.weekly, -s.weekly}
            /\ g.monthly >= 0 /\ g.monthly \in {s.monthly, -s.monthly}
            /\ g.dayHeight \in 0..FullHeight
            /\ g.weekHeight \in 0..FullHeight
            /\ g.monthHeight \in 0..FullHeight

\* C34 witness: the HUD shows a person whose row holds negative amounts
\* beyond what fills the bars: the three bars are full.
C34_Witness ==
  /\ Rendered
  /\ \E p \in Range(people) :
       /\ transactionSummaries[p].found
       /\ transactionSummaries[p].daily < -10
       /\ transactionSummaries[p].weekly < -50
       /\ transactionSummaries[p].monthly < -200
       /\ GetPersonProgress(p).dayHeight = FullHeight
       /\ GetPersonProgress(p).weekHeight = FullHeight
       /\ GetPersonProgress(p).monthHeight = FullHeight
       /\ GetPersonProgress(p).total = -transactionSummaries[p].total_amount

\* ---------------------------------------------------------------- completion
\* the steps of completeTask that apply the optimistic move
CompletionMoves == {"completePay", "completeNoPayer", "completeBadAmount"}

\* C32: the optimistic completion is applied only to a task that is in the
\* active collection at the moment it is applied.
C32_MoveOnlyActiveTask ==
  [][ last'.ev \in CompletionMoves => last'.task \in Ids(tasks) ]_vars

\* C33: within a completion flow the task is moved only in a step that
\* handles the successful answer of the flow's status update, a send payload
\* is POSTed only in such a step and after the move, and the step that
\* handles a failed update moves nothing and POSTs nothing.
C33_UpdateThenMoveThenPay ==
  [][ /\ last'.ev \in CompletionMoves
        => /\ \E r \in Pending :
                /\ r.kind = "updComplete" /\ r.task.id = last'.task
                /\ CopiesIn(r, inflight') = CopiesIn(r, inflight) - 1
           /\ remoteTasks'[last'.task].status = "completed"
      /\ ( /\ Len(ledger') > Len(ledger)
           /\ ledger'[Len(ledger')].transaction_type = "send" )
        => /\ last'.ev = "completePay"
           /\ ledger'[Len(ledger')].metadata.task_id = last'.task
           /\ last'.task \in Ids(completedTasks')
           /\ last'.task \notin Ids(tasks')
      /\ last'.ev = "completeFailed"
        => UNCHANGED <<remoteTasks, tasks, completedTasks, ledger>> ]_vars

\* C33 witness: the update of t1 succeeded, the task was moved and its send
\* payload awaits the answer of the ledger.
C33_Witness ==
  /\ last.ev = "completePay"
  /\ last.task = "t1"
  /\ remoteTasks["t1"].status = "completed"
  /\ "t1" \in Ids(completedTasks) /\ "t1" \notin Ids(tasks)
  /\ Len(ledger) = 1 /\ ledger[1].result = "pending"
  /\ ledger[1].metadata.task_id = "t1"

\* the number of records of a collection that carry the id
IdCount(seq, t) == Cardinality({i \in 1..Len(seq) : seq[i].id = t})

\* C35: no task id appears more than once in the active and the completed
\* collection taken together.
C35_NoDuplicateIds ==
  \A t \in TaskIds : IdCount(tasks, t) + IdCount(completedTasks, t) <= 1

\* the records of a collection that are about other tasks
Others(seq, t) == SelectSeq(seq, LAMBDA x : x.id # t)

\* C39: an optimistic completion or reversal changes only the task it is
\* about: the ids held by the two collections together stay the same, the
\* records of every other task stay in place and the Person list is kept.
C39_MoveChangesOneTask ==
  [][ last'.ev \in CompletionMoves \cup {"uncompleteReverse"}
        => /\ Ids(tasks') \cup Ids(completedTasks')
                = Ids(tasks) \cup Ids(completedTasks)
           /\ Others(tasks', last'.task) = Others(tasks, last'.task)
           /\ Others(completedTasks', last'.task)
                = Others(completedTasks, last'.task)
           /\ people' = people ]_vars

\* the segments that end a completeTask flow which passed the guard
FlowEnds ==
  {"completeNoPayer", "completeBadAmount", "completeFailed", "sendOk",
   "sendFailed"}

\* C36: once a completeTask flow that passed the re-entry guard has ended,
\* the guard becomes free again without any step of the user.
C36_GuardReleased ==
  (last.ev \in FlowEnds /\ showModal) ~> ~showModal

\* ---------------------------------------------------------------- cache
\* C37: when no load and no flow awaits a remote call and every remote call
\* so far was accepted, a task the cache holds for the selected conversation
\* is in the completed collection exactly when its Task Store row is
\* completed.
C37_CacheAgreesWhenQuiet ==
  inflight = EmptyBag
    => \A t \in Ids(tasks) \cup Ids(completedTasks) :
         remoteTasks[t].chat_id = conversationId
           => (t \in Ids(completedTasks)
                 <=> remoteTasks[t].status = "completed")

\* C38: once the load of the selected conversation has been applied, a
\* continuation of a flow that was started under another conversation leaves
\* the two collections as they are.
C38_OtherConversationUntouched ==
  [][ ( /\ last'.ev \in CompletionMoves \cup {"uncompleteReverse"}
        /\ LoadsIn(inflight) = 0
        /\ \E r \in Pending :
             /\ r.kind \in {"updComplete", "updUncomplete"}
             /\ r.task.id = last'.task
             /\ CopiesIn(r, inflight') = CopiesIn(r, inflight) - 1
             /\ r.conv # conversationId )
        => UNCHANGED <<tasks, completedTasks>> ]_vars

\* ---------------------------------------------------------------- display
\* getTaskCoins(task): the number on the price badge of a task card
GetTaskCoins(task) == CeilDiv10(IF task.estimated_time_minutes # 0
                                THEN task.estimated_time_minutes ELSE 30)

\* C40: the coins the success modal and the badge of the task show are the
\* amount of the send payload POSTed for the completion, whatever the budget
\* and the estimate of the task.
C40_ShownCoinsArePaid ==
  [][ last'.ev = "completePay"
        => /\ ledger'[Len(ledger')].amount = modalData'.coins
           /\ ledger'[Len(ledger')].amount
                = GetTaskCoins(FindTask(completedTasks', last'.task)) ]_vars

====